---- MODULE Spec2Model ----
(***************************************************************************)
(* ICP registration driver of open3d/t/pipelines/registration/             *)
(* Registration.cpp: EvaluateRegistration and RegistrationICP, with the    *)
(* two correspondence searches they are written against.                   *)
(*                                                                         *)
(* Geometry.  Points lie on the x axis of the integer lattice; a point is  *)
(* its x coordinate.  A rigid transform is <<a, b>>, a \in {1, -1}, the    *)
(* homogeneous matrix of x |-> a*x + b (a = -1 is the half turn about the  *)
(* y axis).  These motions do not commute, and every linear and squared    *)
(* distance is an integer, so both searches are computed exactly.          *)
(*                                                                         *)
(* Reals.  fitness_ is the quotient num/den, inlier_rmse_ is               *)
(* sqrt(num/den); nan marks the result of 0/0.                             *)
(***************************************************************************)
EXTENDS Integers, Sequences, FiniteSets

VARIABLES
    op,                          \* entry point called
    source,                      \* source.GetPoints()
    target,                      \* target.GetPoints()
    tags,                        \* dtype / device / shape of the three inputs
    max_correspondence_distance,
    init,                        \* init (RegistrationICP), transformation (EvaluateRegistration)
    criteria,                    \* ICPConvergenceCriteria
    condition,                   \* search selector of the wrapper
    pc,                          \* position in the called function
    transformation,              \* local of RegistrationICP
    target_nns,                  \* NearestNeighborSearch object
    source_transformed,          \* working copy of the source
    result,                      \* RegistrationResult local
    corres,                      \* pair handed to the estimator
    i,                           \* loop counter
    nnsBuilds,                   \* history: index constructions
    nnsQueries,                  \* history: searches issued on the index
    nTransforms,                 \* history: PointCloud::Transform calls
    nEstimator,                  \* history: ComputeTransformation calls
    updates,                     \* history: updates returned by the estimator
    evals                        \* history: the result of each correspondence evaluation

vars == <<op, source, target, tags, max_correspondence_distance, init, criteria,
          condition, pc, transformation, target_nns, source_transformed, result,
          corres, i, nnsBuilds, nnsQueries, nTransforms, nEstimator, updates, evals>>

----------------------------------------------------------------------------
(* Bounds of the model *)

MaxPts == 2
MaxCoord == 2
MaxDist == 2
MaxIter == 2

----------------------------------------------------------------------------
(* Arithmetic *)

Abs(x) == IF x < 0 THEN -x ELSE x

Real(n, d) == [nan |-> FALSE, num |-> n, den |-> d]
NaN == [nan |-> TRUE, num |-> 0, den |-> 0]

\* (float)n / (float)d for n >= 0, d >= 0: 0/0 is NaN, n/0 is +inf (den = 0)
FloatDiv(n, d) == IF d = 0 /\ n = 0 THEN NaN ELSE Real(n, d)

\* std::abs(a - b) < r for quotients a, b and threshold r = <<rn, rd>>
QuotDeltaBelow(a, b, r) ==
    IF a.nan \/ b.nan \/ a.den = 0 \/ b.den = 0 THEN FALSE
    ELSE Abs(a.num * b.den - b.num * a.den) * r[2] < r[1] * a.den * b.den

\* std::abs(sqrt(a) - sqrt(b)) < r for radicands a, b and threshold r = <<rn, rd>>
RootDeltaBelow(a, b, r) ==
    IF a.nan \/ b.nan \/ a.den = 0 \/ b.den = 0 THEN FALSE
    ELSE IF r[1] <= 0 THEN FALSE
    ELSE LET aGe == a.num * b.den >= b.num * a.den
             p == IF aGe THEN a ELSE b
             q == IF aGe THEN b ELSE a
             rn2 == r[1] * r[1]
             rd2 == r[2] * r[2]
             D == p.den * q.den * rd2
             AN == p.num * q.den * rd2 - q.num * p.den * rd2 - rn2 * p.den * q.den
         IN  \/ AN < 0
             \/ AN * AN * rd2 * q.den < 4 * rn2 * q.num * D * D

----------------------------------------------------------------------------
(* Tensors and point clouds *)

Identity == <<1, 0>>

\* a.Matmul(b)
Matmul(a, b) == <<a[1] * b[1], a[1] * b[2] + a[2]>>

\* a one-dimensional tensor, held as a sequence
Tensor(f) == f \o <<>>

\* PointCloud::Transform
Transform(points, T) == Tensor([k \in DOMAIN points |-> T[1] * points[k] + T[2]])

RECURSIVE IndexGet(_, _)
\* Tensor::IndexGet with a boolean mask
IndexGet(values, mask) ==
    IF values = <<>> THEN <<>>
    ELSE LET rest == IndexGet(Tail(values), Tail(mask))
         IN  IF Head(mask) THEN <<Head(values)>> \o rest ELSE rest

RECURSIVE Sum(_)
Sum(values) == IF values = <<>> THEN 0 ELSE Head(values) + Sum(Tail(values))

----------------------------------------------------------------------------
(* NearestNeighborSearch over the target points.  Target indices are       *)
(* 0-based as in the tensors; -1 is the "no match" value.                  *)

\* target_nns before its declaration is reached
NoIndex == [dataset_points |-> <<>>, built |-> FALSE]

\* NearestNeighborSearch target_nns(points): the index built on the points
NearestNeighborSearch(points) == [dataset_points |-> points, built |-> TRUE]

\* target_nns.KnnIndex(): whether the index is set
KnnIndex(nns) == nns.built

\* target_nns.HybridIndex(): whether the index is set
HybridIndex(nns) == nns.built

\* position (1-based) of the nearest dataset point, lowest index on ties
Nearest(nns, x) ==
    CHOOSE k \in DOMAIN nns.dataset_points :
        \A j \in DOMAIN nns.dataset_points :
            \/ Abs(x - nns.dataset_points[k]) < Abs(x - nns.dataset_points[j])
            \/ Abs(x - nns.dataset_points[k]) = Abs(x - nns.dataset_points[j]) /\ k <= j

\* target_nns.KnnSearch(query, 1): <<indices, linear distances>>
KnnSearch(nns, query) ==
    LET near == Tensor([k \in DOMAIN query |-> Nearest(nns, query[k])])
    IN  << Tensor([k \in DOMAIN query |-> near[k] - 1]),
           Tensor([k \in DOMAIN query |-> Abs(query[k] - nns.dataset_points[near[k]])]) >>

\* target_nns.HybridSearch(query, radius, 1): <<indices, squared distances>>,
\* index -1 and distance 0 where no dataset point lies within radius
HybridSearch(nns, query, radius) ==
    LET near == Tensor([k \in DOMAIN query |-> Nearest(nns, query[k])])
        sq == Tensor([k \in DOMAIN query |->
                  (query[k] - nns.dataset_points[near[k]]) * (query[k] - nns.dataset_points[near[k]])])
    IN  << Tensor([k \in DOMAIN query |-> IF sq[k] <= radius THEN near[k] - 1 ELSE -1]),
           Tensor([k \in DOMAIN query |-> IF sq[k] <= radius THEN sq[k] ELSE 0]) >>

----------------------------------------------------------------------------
(* Registration.cpp *)

\* RegistrationResult(transformation)
RegistrationResult(T) ==
    [transformation_ |-> T,
     correspondence_select_bool_ |-> <<>>,
     correspondence_set_ |-> <<>>,
     fitness_ |-> Real(0, 1),
     inlier_rmse_ |-> Real(0, 1)]

\* mutant: the device of the target is not compared with the source's
AssertInputs_NoDevice(t) ==
    /\ t.source_dtype = "Float32"
    /\ t.target_dtype = "Float32"
    /\ t.init_shape = <<4, 4>>
    /\ t.init_device = t.source_device
    /\ t.init_dtype = "Float32"

\* the dtype / device / shape assertions that open every function
AssertInputs(t) ==
    /\ t.source_dtype = "Float32"
    /\ t.target_dtype = "Float32"
    /\ t.target_device = t.source_device
    /\ t.init_shape = <<4, 4>>
    /\ t.init_device = t.source_device
    /\ t.init_dtype = "Float32"

\* what a call of an evaluator leaves: whether it returned (or failed
\* fatally), the result, and the number of searches issued on the index
Outcome(ok, res, n) == [ok |-> ok, result |-> res, searches |-> n]

GetCorrespondencesFromKNNSearch(src, nns, t, d, T) ==
    IF ~AssertInputs(t) THEN Outcome(FALSE, RegistrationResult(T), 0)
    ELSE IF d <= 0 THEN Outcome(TRUE, RegistrationResult(T), 0)
    ELSE LET check == KnnIndex(nns)
             result_nns == KnnSearch(nns, src)
             select_bool == Tensor([k \in DOMAIN src |-> result_nns[2][k] <= d])
             set == IndexGet(result_nns[1], select_bool)
             dist_select == IndexGet(result_nns[2], select_bool)
             squared_error == Sum(dist_select)
         IN  IF ~check THEN Outcome(FALSE, RegistrationResult(T), 0)
             ELSE Outcome(TRUE,
                          [transformation_ |-> T,
                           correspondence_select_bool_ |-> select_bool,
                           correspondence_set_ |-> set,
                           fitness_ |-> FloatDiv(Len(set), Len(select_bool)),
                           inlier_rmse_ |-> FloatDiv(squared_error, Len(set))],
                          1)

\* mutant: a zero distance is searched
ShortCircuit_Strict(d) == d < 0

\* if (max_correspondence_distance <= 0.0) return result;
ShortCircuit(d) == d <= 0

\* mutant: the threshold is passed to the radius search unsquared
HybridRadius_Unsquared(d) == d

\* max_correspondence_distance * max_correspondence_distance
HybridRadius(d) == d * d

GetCorrespondencesFromHybridSearch(src, nns, t, d, T) ==
    IF ~AssertInputs(t) THEN Outcome(FALSE, RegistrationResult(T), 0)
    ELSE IF ShortCircuit(d) THEN Outcome(TRUE, RegistrationResult(T), 0)
    ELSE LET check == HybridIndex(nns)
             result_nns == HybridSearch(nns, src, HybridRadius(d))
             select_bool == Tensor([k \in DOMAIN src |-> result_nns[1][k] # -1])
             set == IndexGet(result_nns[1], select_bool)
             dist_select == IndexGet(result_nns[2], select_bool)
             squared_error == Sum(dist_select)
         IN  IF ~check THEN Outcome(FALSE, RegistrationResult(T), 0)
             ELSE Outcome(TRUE,
                          [transformation_ |-> T,
                           correspondence_select_bool_ |-> select_bool,
                           correspondence_set_ |-> set,
                           fitness_ |-> FloatDiv(Len(set), Len(select_bool)),
                           inlier_rmse_ |-> FloatDiv(squared_error, Len(set))],
                          1)

GetRegistrationResultAndCorrespondences(src, nns, t, d, T, cond) ==
    IF ~AssertInputs(t) THEN Outcome(FALSE, RegistrationResult(T), 0)
    ELSE IF cond THEN GetCorrespondencesFromKNNSearch(src, nns, t, d, T)
    ELSE GetCorrespondencesFromHybridSearch(src, nns, t, d, T)

\* mutant: the loop runs once more
LoopGuard_Inclusive(k, crit) == k <= crit.max_iteration_

\* mutant: the search object is declared on the source points
IndexDataset_Source(src, tgt) == src

\* the points target_nns is declared on
IndexDataset(src, tgt) == tgt

\* for (int i = 0; i < criteria.max_iteration_; i++)
LoopGuard(k, crit) == k < crit.max_iteration_

\* mutant: the update is composed on the right
ComposeUpdate_Right(update, T) == Matmul(T, update)

\* transformation = update.Matmul(transformation)
ComposeUpdate(update, T) == Matmul(update, T)

\* mutant: the working cloud is not moved by the update
TransformWorking_Skipped(points, update) == points

\* source_transformed.Transform(update)
TransformWorking(points, update) == Transform(points, update)

\* mutant: either delta below its threshold ends the loop
Converged_Either(backup, res, crit) ==
    \/ QuotDeltaBelow(backup.fitness_, res.fitness_, crit.relative_fitness_)
    \/ RootDeltaBelow(backup.inlier_rmse_, res.inlier_rmse_, crit.relative_rmse_)

\* the break condition of the loop
Converged(backup, res, crit) ==
    /\ QuotDeltaBelow(backup.fitness_, res.fitness_, crit.relative_fitness_)
    /\ RootDeltaBelow(backup.inlier_rmse_, res.inlier_rmse_, crit.relative_rmse_)

----------------------------------------------------------------------------
(* Inputs *)

Points(n) == UNION {[1..k -> 0..MaxCoord] : k \in 1..n}

\* the source cloud lists its points in ascending order, repeats allowed
Sources == {p \in Points(MaxPts) : \A j, k \in DOMAIN p : j < k => p[j] <= p[k]}

\* the target cloud lists its points in ascending order, without repeats
Targets == {t \in Points(MaxPts) : \A j, k \in DOMAIN t : j < k => t[j] < t[k]}

Distances == -1..MaxDist

Transforms == {Identity, <<-1, MaxCoord>>}

\* what the estimator may return
Updates == {Identity, <<1, -1>>, <<-1, MaxCoord>>}

Criteria ==
    [max_iteration_ : 0..MaxIter,
     relative_fitness_ : {<<1, 2>>},
     relative_rmse_ : {<<1, 2>>}]
    \cup
    [max_iteration_ : 1..MaxIter,
     relative_fitness_ : {<<3, 2>>},
     relative_rmse_ : {<<3, 2>>}]
    \cup
    [max_iteration_ : {1},
     relative_fitness_ : {<<1, 2>>},
     relative_rmse_ : {<<0, 1>>}]

DefaultCriteria ==
    [max_iteration_ |-> 1, relative_fitness_ |-> <<1, 2>>, relative_rmse_ |-> <<1, 2>>]

Tags ==
    [source_dtype : {"Float32", "Float64"},
     target_dtype : {"Float32", "Float64"},
     source_device : {"CPU:0"},
     target_device : {"CPU:0", "CUDA:0"},
     init_shape : {<<4, 4>>, <<3, 3>>},
     init_dtype : {"Float32", "Float64"},
     init_device : {"CPU:0", "CUDA:0"}]

ValidTags == {t \in Tags : AssertInputs(t)}

\* a call of either entry point; a call whose inputs fail the assertions is
\* made on one fixed geometry
Call(conds, crits) ==
    /\ op \in {"RegistrationICP", "EvaluateRegistration"}
    /\ condition \in conds
    /\ \/ /\ tags \in ValidTags
          /\ source \in Sources
          /\ target \in Targets
          /\ max_correspondence_distance \in Distances
          /\ init \in Transforms
          /\ criteria \in (IF op = "RegistrationICP" THEN crits ELSE {DefaultCriteria})
       \/ /\ tags \in Tags \ ValidTags
          /\ source = <<0>>
          /\ target = <<0>>
          /\ max_correspondence_distance = 1
          /\ init = Identity
          /\ criteria = DefaultCriteria
    /\ pc = "start"
    /\ transformation = Identity
    /\ target_nns = NoIndex
    /\ source_transformed = <<>>
    /\ result = RegistrationResult(Identity)
    /\ corres = <<result.correspondence_select_bool_, result.correspondence_set_>>
    /\ i = 0
    /\ nnsBuilds = 0
    /\ nnsQueries = 0
    /\ nTransforms = 0
    /\ nEstimator = 0
    /\ updates = <<>>
    /\ evals = <<>>

\* bool condition = false;
Init == Call({FALSE}, Criteria)

inputs == <<op, source, target, tags, max_correspondence_distance, init, criteria,
            condition>>

----------------------------------------------------------------------------
(* EvaluateRegistration *)

Eval_AssertInputs ==
    /\ op = "EvaluateRegistration"
    /\ pc = "start"
    /\ pc' = IF AssertInputs(tags) THEN "Eval_nns" ELSE "fatal"
    /\ UNCHANGED <<inputs, transformation, target_nns, source_transformed, result,
                   corres, i, nnsBuilds, nnsQueries, nTransforms, nEstimator,
                   updates, evals>>

\* the search object and the copy of the source
Eval_Locals ==
    /\ pc = "Eval_nns"
    /\ target_nns' = NearestNeighborSearch(IndexDataset(source, target))
    /\ nnsBuilds' = nnsBuilds + 1
    /\ source_transformed' = source
    /\ transformation' = init
    /\ pc' = "Eval_transform"
    /\ UNCHANGED <<inputs, result, corres, i, nnsQueries, nTransforms, nEstimator,
                   updates, evals>>

Eval_Transform ==
    /\ pc = "Eval_transform"
    /\ source_transformed' = Transform(source_transformed, transformation)
    /\ nTransforms' = nTransforms + 1
    /\ pc' = "Eval_evaluate"
    /\ UNCHANGED <<inputs, transformation, target_nns, result, corres, i, nnsBuilds,
                   nnsQueries, nEstimator, updates, evals>>

Eval_Evaluate ==
    /\ pc = "Eval_evaluate"
    /\ \E out \in {GetRegistrationResultAndCorrespondences(
                      source_transformed, target_nns, tags,
                      max_correspondence_distance, transformation, condition)} :
           /\ result' = out.result
           /\ nnsQueries' = nnsQueries + out.searches
           /\ evals' = IF out.ok
                       THEN Append(evals, out.result)
                       ELSE evals
           /\ pc' = IF out.ok THEN "done" ELSE "fatal"
    /\ UNCHANGED <<inputs, transformation, target_nns, source_transformed, corres, i,
                   nnsBuilds, nTransforms, nEstimator, updates>>

----------------------------------------------------------------------------
(* RegistrationICP *)

ICP_AssertInputs ==
    /\ op = "RegistrationICP"
    /\ pc = "start"
    /\ pc' = IF AssertInputs(tags) THEN "ICP_nns" ELSE "fatal"
    /\ UNCHANGED <<inputs, transformation, target_nns, source_transformed, result,
                   corres, i, nnsBuilds, nnsQueries, nTransforms, nEstimator,
                   updates, evals>>

\* transformation, the search object and the copy of the source
ICP_Locals ==
    /\ pc = "ICP_nns"
    /\ transformation' = init
    /\ target_nns' = NearestNeighborSearch(IndexDataset(source, target))
    /\ nnsBuilds' = nnsBuilds + 1
    /\ source_transformed' = source
    /\ pc' = "ICP_transform"
    /\ UNCHANGED <<inputs, result, corres, i, nnsQueries, nTransforms, nEstimator,
                   updates, evals>>

ICP_Transform ==
    /\ pc = "ICP_transform"
    /\ source_transformed' = Transform(source_transformed, transformation)
    /\ nTransforms' = nTransforms + 1
    /\ pc' = "ICP_evaluate"
    /\ UNCHANGED <<inputs, transformation, target_nns, result, corres, i, nnsBuilds,
                   nnsQueries, nEstimator, updates, evals>>

ICP_Evaluate ==
    /\ pc = "ICP_evaluate"
    /\ \E out \in {GetRegistrationResultAndCorrespondences(
                      source_transformed, target_nns, tags,
                      max_correspondence_distance, transformation, condition)} :
           /\ result' = out.result
           /\ corres' = <<out.result.correspondence_select_bool_,
                          out.result.correspondence_set_>>
           /\ nnsQueries' = nnsQueries + out.searches
           /\ evals' = IF out.ok
                       THEN Append(evals, out.result)
                       ELSE evals
           /\ pc' = IF out.ok THEN "ICP_loop" ELSE "fatal"
    /\ i' = 0
    /\ UNCHANGED <<inputs, transformation, target_nns, source_transformed, nnsBuilds,
                   nTransforms, nEstimator, updates>>

\* one pass of the loop body, the estimator returning update
ICP_Iterate ==
    /\ pc = "ICP_loop"
    /\ LoopGuard(i, criteria)
    /\ \E update \in Updates :
          \E T \in {ComposeUpdate(update, transformation)},
             moved \in {TransformWorking(source_transformed, update)},
             backup \in {result} :
              \E out \in {GetRegistrationResultAndCorrespondences(
                         moved, target_nns, tags, max_correspondence_distance, T,
                         condition)} :
              /\ nEstimator' = nEstimator + 1
              /\ updates' = Append(updates, update)
              /\ transformation' = T
              /\ source_transformed' = moved
              /\ nTransforms' = nTransforms + 1
              /\ result' = out.result
              /\ corres' = <<out.result.correspondence_select_bool_,
                             out.result.correspondence_set_>>
              /\ nnsQueries' = nnsQueries + out.searches
              /\ evals' = IF out.ok
                          THEN Append(evals, out.result)
                          ELSE evals
              /\ pc' = IF ~out.ok THEN "fatal"
                       ELSE IF Converged(backup, out.result, criteria) THEN "done"
                       ELSE "ICP_loop"
              /\ i' = IF out.ok /\ ~Converged(backup, out.result, criteria)
                      THEN i + 1 ELSE i
    /\ UNCHANGED <<inputs, target_nns, nnsBuilds>>

\* the estimator fails (LogError throws): the call returns no result
ICP_EstimatorFails ==
    /\ pc = "ICP_loop"
    /\ LoopGuard(i, criteria)
    /\ nEstimator' = nEstimator + 1
    /\ pc' = "aborted"
    /\ UNCHANGED <<inputs, transformation, target_nns, source_transformed, result,
                   corres, i, nnsBuilds, nnsQueries, nTransforms, updates, evals>>

\* the loop condition fails: return result
ICP_Return ==
    /\ pc = "ICP_loop"
    /\ ~LoopGuard(i, criteria)
    /\ pc' = "done"
    /\ UNCHANGED <<inputs, transformation, target_nns, source_transformed, result,
                   corres, i, nnsBuilds, nnsQueries, nTransforms, nEstimator,
                   updates, evals>>

Next ==
    \/ Eval_AssertInputs
    \/ Eval_Locals
    \/ Eval_Transform
    \/ Eval_Evaluate
    \/ ICP_AssertInputs
    \/ ICP_Locals
    \/ ICP_Transform
    \/ ICP_Evaluate
    \/ ICP_Iterate
    \/ ICP_EstimatorFails
    \/ ICP_Return

Spec == Init /\ [][Next]_vars

\* the wrapper with the search left selectable, as its comment intends
InitModes == Call(BOOLEAN, {DefaultCriteria})

SpecModes == InitModes /\ [][Next]_vars

----------------------------------------------------------------------------
(* Properties *)

ICP == op = "RegistrationICP"

\* a result has been produced and the call has not failed in an assertion
Evaluated == evals # <<>> /\ pc \in {"ICP_loop", "done", "aborted"}

IsZero(x) == ~x.nan /\ x.num = 0 /\ x.den # 0

TruePositions(mask) == {k \in DOMAIN mask : mask[k]}

\* both deltas of update k are below their thresholds
FitnessBelow(k) ==
    QuotDeltaBelow(evals[k].fitness_, evals[k + 1].fitness_,
                   criteria.relative_fitness_)

RmseBelow(k) ==
    RootDeltaBelow(evals[k].inlier_rmse_, evals[k + 1].inlier_rmse_,
                   criteria.relative_rmse_)

\* C1: RegistrationICP makes at most max_iteration updates; it returns after
\* update k < max_iteration exactly when k is the first update at which the
\* fitness delta and the rmse delta are both below their thresholds, and goes
\* on to the next iteration when only one of them is.
C1_ConjunctiveStop ==
    ICP /\ pc \in {"ICP_loop", "done", "aborted"} =>
        /\ Len(updates) <= criteria.max_iteration_
        /\ Len(evals) = Len(updates) + 1
        /\ \A k \in 1..Len(updates) :
               FitnessBelow(k) /\ RmseBelow(k) => k = Len(updates) /\ pc = "done"
        /\ pc = "done" /\ Len(updates) < criteria.max_iteration_ =>
               /\ Len(updates) >= 1
               /\ FitnessBelow(Len(updates))
               /\ RmseBelow(Len(updates))
        /\ pc = "ICP_loop" => i = Len(updates)

\* the fitness delta of update 1 is below its threshold, the rmse delta is
\* not, and a second update was made
C1_Witness ==
    /\ ICP /\ pc = "done" /\ Len(updates) = 2
    /\ FitnessBelow(1) /\ ~RmseBelow(1)
    /\ ~evals[1].inlier_rmse_.nan /\ ~evals[2].inlier_rmse_.nan

\* C2: with max_iteration = 0 RegistrationICP evaluates once, never calls
\* the estimator and returns init as the transformation.
C2_ZeroIterations ==
    ICP /\ criteria.max_iteration_ = 0 =>
        /\ nEstimator = 0
        /\ Len(evals) <= 1
        /\ pc = "done" =>
               /\ Len(evals) = 1
               /\ result.transformation_ = init

C2_Witness ==
    /\ ICP /\ criteria.max_iteration_ = 0 /\ pc = "done"
    /\ init # Identity
    /\ max_correspondence_distance > 0

\* C3: in every result the indices are as many as the true entries of the
\* mask, the mask is as long as the source, and the i-th index is the target
\* matched to the i-th true entry of the mask, for every
\* max_correspondence_distance.
C3_MaskAndIndices ==
    Evaluated =>
        LET mask == result.correspondence_select_bool_
            set == result.correspondence_set_
        IN  /\ Len(set) = Cardinality(TruePositions(mask))
            /\ Len(mask) = Len(source)
            /\ \A k \in TruePositions(mask) :
                   LET rank == Cardinality({j \in TruePositions(mask) : j <= k})
                   IN  /\ rank \in DOMAIN set
                       /\ set[rank] = Nearest(target_nns, source_transformed[k]) - 1

\* C4: with max_correspondence_distance <= 0 the result carries the given
\* transformation, an all-false mask, no indices, fitness 0 and rmse 0, and
\* no search is issued.
C4_DegenerateThreshold ==
    max_correspondence_distance <= 0 /\ Evaluated =>
        /\ result.transformation_ = transformation
        /\ \A k \in DOMAIN result.correspondence_select_bool_ :
               ~result.correspondence_select_bool_[k]
        /\ result.correspondence_set_ = <<>>
        /\ IsZero(result.fitness_)
        /\ IsZero(result.inlier_rmse_)
        /\ nnsQueries = 0

C4_Witness ==
    /\ max_correspondence_distance = 0 /\ pc = "done"
    /\ op = "EvaluateRegistration"
    /\ init # Identity
    /\ \E k \in DOMAIN source_transformed : source_transformed[k] = target[1]

\* C5: every result has fitness = matched_count / source_count in [0, 1] and
\* a defined inlier_rmse >= 0, also when nothing is matched.
C5_MetricsDefined ==
    Evaluated =>
        LET matched == Len(result.correspondence_set_)
        IN  /\ ~result.fitness_.nan
            /\ result.fitness_.den > 0
            /\ result.fitness_.num * Len(source) = matched * result.fitness_.den
            /\ 0 <= result.fitness_.num
            /\ result.fitness_.num <= result.fitness_.den
            /\ ~result.inlier_rmse_.nan
            /\ result.inlier_rmse_.den > 0
            /\ result.inlier_rmse_.num >= 0

\* a mismatch of device or precision between source, target and transform,
\* or a transform that is not 4x4
Mismatch ==
    \/ tags.target_device # tags.source_device
    \/ tags.target_dtype # tags.source_dtype
    \/ tags.init_shape # <<4, 4>>
    \/ tags.init_device # tags.source_device
    \/ tags.init_dtype # tags.source_dtype

\* C6: on a mismatch both entry points fail before any work: no index is
\* built, no search issued, no cloud transformed, no estimator called.
C6_FailBeforeWork ==
    Mismatch =>
        /\ pc \in {"start", "fatal"}
        /\ nnsBuilds = 0
        /\ nnsQueries = 0
        /\ nTransforms = 0
        /\ nEstimator = 0
        /\ evals = <<>>
        /\ target_nns = NoIndex

C6_Witness ==
    /\ ICP /\ pc = "fatal"
    /\ tags.target_device # tags.source_device
    /\ tags.target_dtype = tags.source_dtype
    /\ tags.init_shape = <<4, 4>>

\* the result the search not selected by condition gives on the same inputs
OtherMode ==
    IF condition
    THEN GetCorrespondencesFromHybridSearch(source_transformed, target_nns, tags,
             max_correspondence_distance, transformation).result
    ELSE GetCorrespondencesFromKNNSearch(source_transformed, target_nns, tags,
             max_correspondence_distance, transformation).result

\* C7: for a cutoff d > 0 the exact-nearest search and the radius search
\* give the same mask and the same indices, also for a point whose nearest
\* target lies exactly at distance d.
C7_ModesAgree ==
    max_correspondence_distance > 0 /\ Evaluated =>
        /\ result.correspondence_select_bool_ = OtherMode.correspondence_select_bool_
        /\ result.correspondence_set_ = OtherMode.correspondence_set_

C7_Witness ==
    /\ condition /\ Evaluated /\ max_correspondence_distance = 2
    /\ \E k \in DOMAIN source_transformed :
           /\ Abs(source_transformed[k]
                  - target[Nearest(target_nns, source_transformed[k])]) = 2
           /\ result.correspondence_select_bool_[k]
    /\ \E k \in DOMAIN source_transformed :
           ~result.correspondence_select_bool_[k]

RECURSIVE LeftProduct(_, _)
\* u_k * ... * u_1 * T for us = <<u_1, ..., u_k>>
LeftProduct(us, T) ==
    IF us = <<>> THEN T ELSE LeftProduct(Tail(us), Matmul(Head(us), T))

\* C9: after updates u_1 .. u_k the returned transformation is
\* u_k * ... * u_1 * init, and the returned result is that of the last
\* evaluation.
C9_LeftComposition ==
    ICP /\ pc = "done" =>
        /\ result.transformation_ = LeftProduct(updates, init)
        /\ Len(evals) = Len(updates) + 1
        /\ result = evals[Len(evals)]

C9_Witness ==
    /\ ICP /\ pc = "done" /\ Len(updates) = 2
    /\ Matmul(updates[1], init) # Matmul(init, updates[1])
    /\ Matmul(updates[2], updates[1]) # Matmul(updates[1], updates[2])
    /\ evals[2] # evals[3]

\* C10: at every evaluation and estimator call the working source is the
\* cumulative transformation applied to the original source, the result
\* records that transformation, and the pair for the estimator is the one of
\* the latest evaluation.
C10_WorkingSource ==
    ICP =>
        /\ pc \in {"ICP_evaluate", "ICP_loop", "done", "aborted"} =>
               source_transformed = Transform(source, transformation)
        /\ pc \in {"ICP_loop", "done", "aborted"} =>
               /\ result.transformation_ = transformation
               /\ corres = <<result.correspondence_select_bool_,
                             result.correspondence_set_>>
               /\ result = GetRegistrationResultAndCorrespondences(
                               Transform(source, transformation), target_nns, tags,
                               max_correspondence_distance, transformation,
                               condition).result

C10_Witness ==
    /\ ICP /\ pc = "ICP_loop" /\ LoopGuard(i, criteria)
    /\ Len(updates) = 1 /\ updates[1] # Identity
    /\ init # Identity
    /\ \E k \in DOMAIN corres[1] : corres[1][k]
    /\ \E k \in DOMAIN corres[1] : ~corres[1][k]

====
